---------------------------- MODULE Spec2Model ----------------------------
(***************************************************************************)
(* Scene Inpainter: the Application Controller (src/App.tsx), the Model    *)
(* Gateway (src/services/gemini.ts, lines 1-129) and the Mask Canvas       *)
(* Editor (src/services/gemini.ts, lines 147-302).                         *)
(*                                                                         *)
(* The controller keeps one React state object and updates it only with    *)
(* functional setState calls; a handler reads `state` from the render it   *)
(* was created in, which is the committed state when the event fires.      *)
(* Every gateway call is a promise: the handler issues it in the step of   *)
(* the trigger and applies its response in a later step.  Nothing cancels  *)
(* a call, so the calls in flight form a bag that any later step may       *)
(* resolve in any order.                                                   *)
(***************************************************************************)
EXTENDS Naturals, Sequences, FiniteSets, Bags, TLC

(***************************************************************************)
(* Bounds of the model.                                                    *)
(***************************************************************************)
\* completions pending at the same time: gateway calls in flight plus image
\* loads (canvas initialisation, composite flattening) not yet delivered
MaxInFlight == 2
\* parts in the first candidate of a provider response
MaxParts == 2

(***************************************************************************)
(* Values.  An image is a data URL; the model keeps what the URL encodes:  *)
(* kind "file" is an uploaded photo src, kind "composite" is photo src     *)
(* with the overlay cells ov drawn on top, kind "result" is the payload    *)
(* data the provider returned for a request about photo src.  NoImage is   *)
(* the null of the image fields.  The width and height of a bitmap are not *)
(* kept in these values: a photo's are NativeSize, an emitted composite's  *)
(* are those of the temp canvas it was flattened on (EmittedSize).         *)
(***************************************************************************)
Files == {"A", "B"}
Cells == {1}
Payloads == {"r1", "r2"}

\* img.width, img.height of the uploaded photos: both are 4 by 2
NativeSize(f) == <<4, 2>>

\* parent.clientWidth: a container as wide as the widest photo, a narrower one
WideContainer == 4
NarrowContainer == 3
ContainerWidths == {NarrowContainer, WideContainer}

\* a canvas element without width and height attributes is 300 by 150
DefaultCanvasSize == <<300, 150>>

\* a pixel: nothing, the photo's pixel at a position, or mask paint over it
Transparent == [photo |-> "", cell |-> 0, paint |-> FALSE]
PhotoPixel(f, c) == [photo |-> f, cell |-> c, paint |-> FALSE]
PaintOver(p) == [p EXCEPT !.paint = TRUE]

\* a temp canvas right after createElement('canvas')
BlankSurface == [c \in Cells |-> Transparent]

\* tempCtx.drawImage(img, 0, 0, tempCanvas.width, tempCanvas.height)
DrawPhoto(surface, f) == [c \in Cells |-> PhotoPixel(f, c)]

\* a drawImage of the overlay in 'copy' mode: its clear pixels wipe the photo
DrawOverlayCopy(surface, overlay) ==
  [c \in Cells |-> IF c \in overlay THEN PaintOver(surface[c]) ELSE Transparent]

\* tempCtx.drawImage(canvasRef.current, 0, 0): source-over, so the clear
\* pixels of the overlay leave the surface as it is
DrawOverlay(surface, overlay) ==
  [c \in Cells |-> IF c \in overlay THEN PaintOver(surface[c]) ELSE surface[c]]

NoImage == [kind |-> "none", src |-> "", ov |-> {}, data |-> ""]
File(f) == [kind |-> "file", src |-> f, ov |-> {}, data |-> ""]
Composite(f, ov) == [kind |-> "composite", src |-> f, ov |-> ov, data |-> ""]

\* the pixels a composite encodes: the temp canvas after the two drawImage
\* calls of stopDrawing's img.onload
Pixels(img) == DrawOverlay(DrawPhoto(BlankSurface, img.src), img.ov)

\* `data:image/png;base64,${part.inlineData.data}` of a request about image img
DataUri(img, d) == [kind |-> "result", src |-> img.src, ov |-> {}, data |-> d]

\* error: string | null  (null is <<>>, the message m is <<m>>)
NoError == <<>>
Err(m) == <<m>>

\* the prompt literals of App.tsx
EMPTY_PROMPT == ""
ANALYZING_PROMPT == "Analyzing scene to suggest prompt..."
DEFAULT_PROMPT == "Inpainting task: Add people to the empty spaces. Keep the architecture exactly as it is."
SUGGEST_ERROR == "Could not auto-suggest prompt. Please write your own instructions."

\* the literals of the gateway
SUGGEST_FALLBACK == "Failed to generate suggestion."
ANALYZE_FALLBACK == "No specific errors found. Try refining the prompt manually."
NO_IMAGE_ERROR == "The model did not return an edited image."
INPAINT_FALLBACK_ERROR == "Failed to process inpainting."

\* the two gateway files of the repository and the literal of the second
GEMINI_TS == "src/services/gemini.ts"
PART_000 == "src/unnamed/part_000"
API_KEY_MISSING == "API Key is missing."
Gateways == {GEMINI_TS, PART_000}

\* what the provider may answer: response.text of a text call ("" is an empty
\* or missing text), the message of a thrown error ("" is an empty message)
SuggestionFor(src) == IF src = "A" THEN "suggestion for A" ELSE "suggestion for B"
ProviderSuggestTexts(src) == {"", SuggestionFor(src)}
ProviderAnalyzeTexts == {"", "Refinement task: fix shadows"}
ProviderErrors == {"", "network error"}
UserTexts == {"user text"}

(***************************************************************************)
(* The Model Gateway.                                                      *)
(***************************************************************************)
\* a getPromptSuggestion without the fallback: return response.text
GetPromptSuggestionRaw(text) == text

\* response.text || "Failed to generate suggestion."
GetPromptSuggestion(text) == IF text = "" THEN SUGGEST_FALLBACK ELSE text

\* an analyzeResultForErrors without the fallback: return response.text
AnalyzeResultForErrorsRaw(text) == text

\* response.text || "No specific errors found. ..."
AnalyzeResultForErrors(text) == IF text = "" THEN ANALYZE_FALLBACK ELSE text

\* a part of a candidate: inlineData present (with its data) or not
TextPart == [inline |-> FALSE, data |-> ""]
InlinePart(d) == [inline |-> TRUE, data |-> d]
Parts == {TextPart} \cup {InlinePart(d) : d \in Payloads}

PartSeqs == UNION {[1..n -> Parts] : n \in 0..MaxParts}

\* response.candidates: none, one candidate, or a second one that is never read
Candidates == {<<>>} \cup {<<p>> : p \in PartSeqs}
                \cup {<<p, <<InlinePart("r2")>> >> : p \in PartSeqs}

\* the provider's answer to generateContent of the image model
Responses == [throws : {TRUE}, message : ProviderErrors, candidates : {<<>>}]
               \cup [throws : {FALSE}, message : {""}, candidates : Candidates]

\* the loop without its break: the last part with inline data wins
RECURSIVE LastInline(_)
LastInline(parts) ==
  IF parts = <<>> THEN <<>>
  ELSE IF LastInline(Tail(parts)) # <<>> THEN LastInline(Tail(parts))
  ELSE IF Head(parts).inline THEN <<Head(parts).data>>
  ELSE <<>>

\* for (const part of parts) { if (part.inlineData) { resultUrl = ...; break; } }
RECURSIVE FirstInline(_)
FirstInline(parts) ==
  IF parts = <<>> THEN <<>>
  ELSE IF Head(parts).inline THEN <<Head(parts).data>>
  ELSE FirstInline(Tail(parts))

\* resultUrl of processInpainting: <<>> models the initial "" (no image found)
ResultUrl(resp) ==
  IF Len(resp.candidates) > 0 THEN FirstInline(resp.candidates[1]) ELSE <<>>

Resolved(img) == [ok |-> TRUE, image |-> img, message |-> ""]
Rejected(m) == [ok |-> FALSE, image |-> NoImage, message |-> m]

\* a catch that drops the message it caught: throw new Error("Failed ...")
RethrowGeneric(m) == Rejected(INPAINT_FALLBACK_ERROR)

\* the catch of processInpainting: throw new Error(err.message || "Failed ...")
Rethrow(m) == Rejected(IF m = "" THEN INPAINT_FALLBACK_ERROR ELSE m)

ProcessInpainting(img, resp) ==
  IF resp.throws THEN Rethrow(resp.message)
  ELSE IF ResultUrl(resp) = <<>> THEN Rethrow(NO_IMAGE_ERROR)
  ELSE Resolved(DataUri(img, ResultUrl(resp)[1]))


(***************************************************************************)
(* State.                                                                  *)
(*   state   the controller's Session (useState of App)                    *)
(*   calls   the bag of gateway calls in flight: the operation and the     *)
(*           image the call is about                                       *)
(*   sent    the request the last step handed to the gateway, with all     *)
(*           its arguments (NoRequest when the last step issued none)      *)
(*   canvas  the mounted MaskCanvas: its context ref, isDrawing and the    *)
(*           overlay cells painted on the drawing surface                  *)
(*   loads   the bag of pending Image loads of the mounted MaskCanvas      *)
(*   hist    the controller events so far, kept while they are a prefix    *)
(*           of one of the Scenarios (an observer, read by no action)      *)
(*   env     the deployment: which gateway file is bundled, whether        *)
(*           process.env.API_KEY is set and how wide the element around    *)
(*           the canvas is; it never changes                               *)
(*   brush   brushSize and brushMode of App (useState)                     *)
(***************************************************************************)
VARIABLES state, calls, sent, canvas, loads, hist, env, brush

vars == <<state, calls, sent, canvas, loads, hist, env, brush>>

\* App.tsx imports './services/gemini'; a deployment sets the key
Deployed ==
  [gateway |-> GEMINI_TS, apiKey |-> TRUE, containerWidth |-> WideContainer]
Deployments ==
  [gateway : Gateways, apiKey : BOOLEAN, containerWidth : {WideContainer}]

\* the deployment on pages of every width
Layouts ==
  [gateway : {GEMINI_TS}, apiKey : {TRUE}, containerWidth : ContainerWidths]

\* enum BrushMode; <input type="range" min="10" max="100">, useState(40)
DRAW == "DRAW"
ERASE == "ERASE"
BrushModes == {DRAW, ERASE}
DEFAULT_BRUSH_SIZE == 40
BrushSizes == {10, DEFAULT_BRUSH_SIZE}
InitialBrush == [size |-> DEFAULT_BRUSH_SIZE, mode |-> DRAW]

\* the drawing state of a 2d context that was just created or whose canvas
\* was just sized, and the literals of the brush effect
DEFAULT_LINE_WIDTH == 1
SOURCE_OVER == "source-over"
DESTINATION_OUT == "destination-out"
DEFAULT_STROKE == "#000000"
MASK_STROKE == "rgba(255, 0, 0, 0.5)"
ERASE_STROKE == "rgba(0, 0, 0, 1)"

\* a gateway that never checks the key
NeverThrowsKeyMissing(e) == FALSE

\* part_000: const apiKey = process.env.API_KEY;
\*           if (!apiKey) throw new Error("API Key is missing.")
ThrowsKeyMissing(e) == e.gateway = PART_000 /\ ~e.apiKey

\* new GoogleGenAI({ apiKey }) hands the key to the SDK; gemini.ts does so
\* unchecked (process.env.API_KEY as string).  The SDK and the provider
\* refuse a request that carries no key, so such a call errors
ProviderRefuses(e) == ~e.apiKey

\* useState({...}) of App
InitialState ==
  [originalImage |-> NoImage, maskImage |-> NoImage, resultImage |-> NoImage,
   prompt |-> EMPTY_PROMPT, isProcessing |-> FALSE, isSuggesting |-> FALSE,
   isAnalyzingResult |-> FALSE, error |-> NoError]

\* a MaskCanvas instance right after it is mounted: contextRef is null, the
\* canvas element has its default size and nothing is drawn on it
FreshCanvas ==
  [ctx |-> FALSE, isDrawing |-> FALSE, overlay |-> {},
   size |-> DefaultCanvasSize, lineWidth |-> DEFAULT_LINE_WIDTH,
   gco |-> SOURCE_OVER, strokeStyle |-> DEFAULT_STROKE]

\* the arguments of getPromptSuggestion, processInpainting, analyzeResultForErrors
NoRequest == [op |-> "none", image |-> NoImage, other |-> NoImage, prompt |-> ""]
SuggestCall(img) == [op |-> "suggest", image |-> img, other |-> NoImage, prompt |-> ""]
InpaintCall(img, p) == [op |-> "inpaint", image |-> img, other |-> NoImage, prompt |-> p]
AnalyzeCall(orig, res) == [op |-> "analyze", image |-> orig, other |-> res, prompt |-> ""]

\* the promise of a request: the operation and, where the answer depends on
\* it, the photo the request's image shows
Pending(req) ==
  [op |-> req.op, src |-> IF req.op = "analyze" THEN "" ELSE req.image.src]

InFlight(op) == {c \in BagToSet(calls) : c.op = op}
NumInFlight(op) == BagCardinality([c \in InFlight(op) |-> calls[c]])
\* two uploads in a row: both suggestion requests are in flight while the
\* editor loads the second photo
TwoUploads ==
  /\ BagCardinality(calls') = 2 /\ BagCardinality(loads') = 1
  /\ \A c \in BagToSet(calls') : c.op = "suggest"
  /\ \A l \in BagToSet(loads') : l.kind = "init"
WithinBound ==
  \/ BagCardinality(calls') + BagCardinality(loads') <= MaxInFlight
  \/ TwoUploads
Issue(req) ==
  /\ calls' = calls (+) SetToBag({Pending(req)})
  /\ sent' = req
  /\ env' = env /\ brush' = brush
  /\ WithinBound
Settle(c) ==
  /\ calls' = calls (-) SetToBag({c})
  /\ sent' = NoRequest
  /\ env' = env /\ brush' = brush
Quiet == calls' = calls /\ sent' = NoRequest /\ env' = env
Idle == Quiet /\ brush' = brush

\* new Image() with img.src = imageSrc: of the initialise effect, and of
\* stopDrawing with the temp canvas it has sized
InitLoad(src) == [kind |-> "init", src |-> src, size |-> <<0, 0>>]
FlattenLoad(src, size) == [kind |-> "flatten", src |-> src, size |-> size]

\* {!state.originalImage ? ... : state.resultImage ? ... : <MaskCanvas .../>}
Mounted(s) == s.originalImage # NoImage /\ s.resultImage = NoImage

(***************************************************************************)
(* What a render does to the MaskCanvas when the Session goes from s to t. *)
(* Unmounting clears the refs, so the pending loads of the old instance do *)
(* nothing (the initialise load returns at `!parent`, the flatten load     *)
(* throws in drawImage(null) before onMaskUpdate).  Mounting creates a     *)
(* fresh instance whose initialise effect starts a load; a changed         *)
(* imageSrc on a mounted instance re-runs the initialise effect.           *)
(***************************************************************************)
CanvasAfter(s, t) ==
  IF ~Mounted(t) \/ ~Mounted(s) THEN FreshCanvas ELSE canvas

LoadsAfter(s, t) ==
  IF ~Mounted(t) THEN EmptyBag
  ELSE IF ~Mounted(s) THEN SetToBag({InitLoad(t.originalImage)})
  ELSE IF t.originalImage # s.originalImage
       THEN loads (+) SetToBag({InitLoad(t.originalImage)})
  ELSE loads

Render(t) ==
  /\ state' = t
  /\ canvas' = CanvasAfter(state, t)
  /\ loads' = LoadsAfter(state, t)

(***************************************************************************)
(* The observer.                                                           *)
(***************************************************************************)
Scenarios ==
  { <<"Upload", "SuggestOk", "MaskUpdate", "ApplyUpdate", "InpaintOk">>,
    <<"Upload", "Reset", "SuggestOk">>,
    <<"Upload", "Reset", "SuggestFail">>,
    <<"Upload", "SuggestFail">>,
    <<"Upload", "SuggestOk", "ApplyUpdate", "InpaintOk", "SmartFix", "AnalyzeFail">>,
    <<"Upload", "MaskUpdate", "MaskUpdate">>,
    <<"Upload", "Upload", "SuggestOk", "SuggestOk">> }

Off == <<[op |-> "off", img |-> NoImage, text |-> ""]>>

Ops(h) == [i \in 1..Len(h) |-> h[i].op]

IsPrefix(p, q) == Len(p) <= Len(q) /\ \A i \in 1..Len(p) : p[i] = q[i]

Log(op, img, text) ==
  LET h == Append(hist, [op |-> op, img |-> img, text |-> text])
  IN  hist' = IF hist # Off /\ \E sc \in Scenarios : IsPrefix(Ops(h), sc)
              THEN h ELSE Off

Init ==
  /\ state = InitialState
  /\ calls = EmptyBag
  /\ sent = NoRequest
  /\ canvas = FreshCanvas
  /\ loads = EmptyBag
  /\ hist = <<>>
  /\ env = Deployed
  /\ brush = InitialBrush


(***************************************************************************)
(* The Application Controller: the updaters handed to setState.            *)
(***************************************************************************)
\* reader.onload of handleFileChange, before the call
Uploaded(s, base64) ==
  [s EXCEPT !.originalImage = base64, !.resultImage = NoImage,
            !.error = NoError, !.isSuggesting = TRUE,
            !.prompt = ANALYZING_PROMPT]

\* handleFileChange, after the await
Suggested(s, suggestion) ==
  [s EXCEPT !.prompt = suggestion, !.isSuggesting = FALSE]

\* a handleFileChange catch that leaves the placeholder prompt in place
SuggestFailedKeepingPrompt(s) ==
  [s EXCEPT !.isSuggesting = FALSE, !.error = Err(SUGGEST_ERROR)]

\* handleFileChange, the catch
SuggestFailed(s) ==
  [s EXCEPT !.isSuggesting = FALSE, !.prompt = DEFAULT_PROMPT,
            !.error = Err(SUGGEST_ERROR)]

\* handleSmartFix, before the call
Analyzing(s) == [s EXCEPT !.isAnalyzingResult = TRUE, !.error = NoError]

\* a handleSmartFix success that forgets `resultImage: null`
AnalyzedKeepingResult(s, fixPrompt) ==
  [s EXCEPT !.prompt = fixPrompt, !.isAnalyzingResult = FALSE]

\* handleSmartFix, after the await
Analyzed(s, fixPrompt) ==
  [s EXCEPT !.prompt = fixPrompt, !.isAnalyzingResult = FALSE,
            !.resultImage = NoImage]

\* a handleSmartFix catch that also drops the result: resultImage: null
AnalyzeFailedClearingResult(s, message) ==
  [s EXCEPT !.error = Err(message), !.isAnalyzingResult = FALSE,
            !.resultImage = NoImage]

\* handleSmartFix, the catch
AnalyzeFailed(s, message) ==
  [s EXCEPT !.error = Err(message), !.isAnalyzingResult = FALSE]

\* handleInpaint, before the call
Processing(s) == [s EXCEPT !.isProcessing = TRUE, !.error = NoError]

\* a handleInpaint success that forgets `isProcessing: false`
InpaintedStillProcessing(s, result) == [s EXCEPT !.resultImage = result]

\* handleInpaint, after the await
Inpainted(s, result) ==
  [s EXCEPT !.resultImage = result, !.isProcessing = FALSE]

\* a handleInpaint catch that forgets `isProcessing: false`
InpaintFailedStillProcessing(s, message) == [s EXCEPT !.error = Err(message)]

\* handleInpaint, the catch
InpaintFailed(s, message) ==
  [s EXCEPT !.error = Err(message), !.isProcessing = FALSE]

\* a reset() that leaves the prompt text in the textarea
ResetStateKeepingPrompt ==
  [originalImage |-> NoImage, maskImage |-> NoImage, resultImage |-> NoImage,
   prompt |-> state.prompt, isProcessing |-> FALSE, isSuggesting |-> FALSE,
   isAnalyzingResult |-> FALSE, error |-> NoError]

\* the object reset() installs
ResetState ==
  [originalImage |-> NoImage, maskImage |-> NoImage, resultImage |-> NoImage,
   prompt |-> "", isProcessing |-> FALSE, isSuggesting |-> FALSE,
   isAnalyzingResult |-> FALSE, error |-> NoError]

\* the Edit button's updater
Reedited(s) == [s EXCEPT !.resultImage = NoImage]

\* the textarea's updater
Prompted(s, text) == [s EXCEPT !.prompt = text]

\* onMaskUpdate's updater
Masked(s, m) == [s EXCEPT !.maskImage = m]

(***************************************************************************)
(* The Application Controller: triggers.                                   *)
(***************************************************************************)
\* handleFileChange.  readAsDataURL reads the file whatever the Session is
\* and reader.onload touches the Session only through setState(prev => ...),
\* so the selection and the load are one step: the step of reader.onload.
Upload(f) ==
  /\ Render(Uploaded(state, File(f)))
  /\ Issue(SuggestCall(File(f)))
  /\ Log("Upload", File(f), "")

\* a handleInpaint that always sends the photo: const targetImage = state.originalImage
TargetImageIgnoringMask(s) == s.originalImage

\* const targetImage = state.maskImage || state.originalImage
TargetImage(s) == IF s.maskImage # NoImage THEN s.maskImage ELSE s.originalImage

\* a handleInpaint without `if (!state.originalImage) return`
ApplyUpdateUnguarded ==
  /\ Render(Processing(state))
  /\ Issue(InpaintCall(TargetImage(state), state.prompt))
  /\ Log("ApplyUpdate", TargetImage(state), state.prompt)

\* handleInpaint up to the await
ApplyUpdate ==
  IF state.originalImage = NoImage
  THEN Idle /\ UNCHANGED <<state, canvas, loads, hist>>
  ELSE /\ Render(Processing(state))
       /\ Issue(InpaintCall(TargetImage(state), state.prompt))
       /\ Log("ApplyUpdate", TargetImage(state), state.prompt)

\* handleSmartFix up to the await
SmartFix ==
  IF state.resultImage = NoImage \/ state.originalImage = NoImage
  THEN Idle /\ UNCHANGED <<state, canvas, loads, hist>>
  ELSE /\ Render(Analyzing(state))
       /\ Issue(AnalyzeCall(state.originalImage, state.resultImage))
       /\ Log("SmartFix", NoImage, "")

\* the Edit button
Edit ==
  /\ Render(Reedited(state))
  /\ Log("Edit", NoImage, "")
  /\ Idle
  /\ WithinBound

\* the textarea's onChange
EditPrompt(t) ==
  /\ Render(Prompted(state, t))
  /\ Log("EditPrompt", NoImage, t)
  /\ Idle

\* reset()
Reset ==
  /\ Render(ResetState)
  /\ Log("Reset", NoImage, "")
  /\ Idle

(***************************************************************************)
(* The Application Controller: responses of the calls in flight.           *)
(***************************************************************************)
\* `await getPromptSuggestion(base64)` returns
SuggestOk(c, text) ==
  /\ c \in InFlight("suggest")
  /\ Render(Suggested(state, GetPromptSuggestion(text)))
  /\ Settle(c)
  /\ Log("SuggestOk", NoImage, GetPromptSuggestion(text))

\* `await getPromptSuggestion(base64)` throws
SuggestFail(c) ==
  /\ c \in InFlight("suggest")
  /\ Render(SuggestFailed(state))
  /\ Settle(c)
  /\ Log("SuggestFail", NoImage, "")

\* what processInpainting can settle call c with, over the provider's responses
OutcomesFor == [f \in Files |-> {ProcessInpainting(File(f), resp) : resp \in Responses}]

\* without a key gemini.ts fails in the constructor (outside the try, the
\* message as thrown) or in generateContent (inside it, the message rethrown)
RefusedOutcomes ==
  {Rejected(m) : m \in ProviderErrors} \cup {Rethrow(m) : m \in ProviderErrors}

Outcomes(c) ==
  IF c.src \notin Files THEN {}
  ELSE IF ThrowsKeyMissing(env) THEN {Rejected(API_KEY_MISSING)}
  ELSE IF ProviderRefuses(env) THEN RefusedOutcomes
  ELSE OutcomesFor[c.src]

\* the texts getPromptSuggestion / analyzeResultForErrors may receive, and the
\* messages analyzeResultForErrors may throw
SuggestTexts(c) ==
  IF ThrowsKeyMissing(env) \/ ProviderRefuses(env) THEN {}
  ELSE ProviderSuggestTexts(c.src)
AnalyzeTexts ==
  IF ThrowsKeyMissing(env) \/ ProviderRefuses(env) THEN {}
  ELSE ProviderAnalyzeTexts
AnalyzeErrors ==
  IF ThrowsKeyMissing(env) THEN {API_KEY_MISSING} ELSE ProviderErrors

\* `await processInpainting(targetImage, state.prompt)` returns
InpaintOk(c, out) ==
  /\ c \in InFlight("inpaint")
  /\ out.ok
  /\ Render(Inpainted(state, out.image))
  /\ Settle(c)
  /\ Log("InpaintOk", out.image, "")

\* `await processInpainting(targetImage, state.prompt)` throws
InpaintFail(c, out) ==
  /\ c \in InFlight("inpaint")
  /\ ~out.ok
  /\ Render(InpaintFailed(state, out.message))
  /\ Settle(c)
  /\ Log("InpaintFail", NoImage, out.message)

\* `await analyzeResultForErrors(...)` returns
AnalyzeOk(c, text) ==
  /\ c \in InFlight("analyze")
  /\ Render(Analyzed(state, AnalyzeResultForErrors(text)))
  /\ Settle(c)
  /\ Log("AnalyzeOk", NoImage, AnalyzeResultForErrors(text))

\* `await analyzeResultForErrors(...)` throws an error with message m
AnalyzeFail(c, m) ==
  /\ c \in InFlight("analyze")
  /\ Render(AnalyzeFailed(state, m))
  /\ Settle(c)
  /\ Log("AnalyzeFail", NoImage, m)

(***************************************************************************)
(* The Mask Canvas Editor (mounted while the editor view is shown).        *)
(***************************************************************************)
\* const scale = Math.min(maxWidth / img.width, 1); w = img.width * scale;
\* h = img.height * scale; canvas.width = w; canvas.height = h (an integer)
FitSize(size, maxWidth) ==
  IF maxWidth >= size[1] THEN size
  ELSE <<maxWidth, (size[2] * maxWidth) \div size[1]>>

\* img.onload of the initialise effect: sizing the canvas clears it and puts
\* its context back to the default drawing state; only lineCap and lineJoin
\* are set afterwards
InitLoaded(l) ==
  /\ Mounted(state)
  /\ l \in BagToSet(loads) /\ l.kind = "init"
  /\ canvas' = [canvas EXCEPT !.ctx = TRUE, !.overlay = {},
                               !.size = FitSize(NativeSize(l.src.src),
                                               env.containerWidth),
                               !.lineWidth = DEFAULT_LINE_WIDTH,
                               !.gco = SOURCE_OVER,
                               !.strokeStyle = DEFAULT_STROKE]
  /\ loads' = loads (-) SetToBag({l})
  /\ Idle
  /\ UNCHANGED <<state, hist>>

\* startDrawing: contextRef.current?.beginPath(); setIsDrawing(true)
StartDrawing ==
  /\ Mounted(state)
  /\ canvas' = [canvas EXCEPT !.isDrawing = TRUE]
  /\ Idle
  /\ UNCHANGED <<state, loads, hist>>

\* ctx.stroke() over a cell: source-over paints it, destination-out with an
\* opaque stroke clears it
Stroked(cv, cell) ==
  IF cv.gco = SOURCE_OVER THEN [cv EXCEPT !.overlay = @ \cup {cell}]
  ELSE [cv EXCEPT !.overlay = @ \ {cell}]

\* draw: if (!isDrawing) return; contextRef.current?.lineTo; ?.stroke()
Draw(cell) ==
  /\ Mounted(state)
  /\ canvas' = IF canvas.isDrawing /\ canvas.ctx
               THEN Stroked(canvas, cell)
               ELSE canvas
  /\ Idle
  /\ UNCHANGED <<state, loads, hist>>

\* a stopDrawing without `if (!isDrawing) return`
StopDrawingUnguarded ==
  /\ Mounted(state)
  /\ canvas' = [canvas EXCEPT !.isDrawing = FALSE]
  /\ loads' = loads (+) SetToBag({FlattenLoad(state.originalImage, canvas.size)})
  /\ Idle
  /\ WithinBound
  /\ UNCHANGED <<state, hist>>

\* stopDrawing: if (!isDrawing) return; ...; img.src = imageSrc (a load)
StopDrawing ==
  /\ Mounted(state)
  /\ IF ~canvas.isDrawing
     THEN Idle /\ UNCHANGED <<state, canvas, loads, hist>>
     ELSE /\ canvas' = [canvas EXCEPT !.isDrawing = FALSE]
          /\ loads' = loads (+) SetToBag({FlattenLoad(state.originalImage, canvas.size)})
          /\ Idle
          /\ WithinBound
          /\ UNCHANGED <<state, hist>>

\* tempCanvas.width = canvasRef.current.width; tempCanvas.height = ...height:
\* the size of the bitmap that toDataURL encodes when load l completes
EmittedSize(l) == l.size

\* img.onload of stopDrawing: draw the photo, draw the canvas on top,
\* onMaskUpdate(toDataURL) = setState(prev => ({ ...prev, maskImage: m }))
MaskUpdate(l) ==
  /\ Mounted(state)
  /\ l \in BagToSet(loads) /\ l.kind = "flatten"
  /\ state' = Masked(state, Composite(l.src.src, canvas.overlay))
  /\ loads' = loads (-) SetToBag({l})
  /\ Log("MaskUpdate", Composite(l.src.src, canvas.overlay), "")
  /\ Idle
  /\ UNCHANGED canvas

\* the brush effect: if (!ctx) return; ctx.lineWidth = brushSize; the mode
\* picks globalCompositeOperation and strokeStyle
BrushApplied(cv, b) ==
  IF ~cv.ctx THEN cv
  ELSE [cv EXCEPT !.lineWidth = b.size,
                  !.gco = IF b.mode = DRAW THEN SOURCE_OVER
                          ELSE DESTINATION_OUT,
                  !.strokeStyle = IF b.mode = DRAW THEN MASK_STROKE
                                  ELSE ERASE_STROKE]

\* a brush control of the toolbar (shown with the editor): the setter stores
\* the value; when it differs from the stored one the MaskCanvas renders
\* again and its brush effect, which depends on [brushSize, mode], runs
BrushSet(b) ==
  /\ Mounted(state)
  /\ brush' = b
  /\ canvas' = IF b = brush THEN canvas ELSE BrushApplied(canvas, b)
  /\ Quiet
  /\ UNCHANGED <<state, loads, hist>>

\* onClick={() => setBrushMode(BrushMode.DRAW)} and ...(BrushMode.ERASE)
SetBrushMode(m) == BrushSet([brush EXCEPT !.mode = m])

\* onChange={(e) => setBrushSize(parseInt(e.target.value))}
SetBrushSize(n) == BrushSet([brush EXCEPT !.size = n])

(***************************************************************************)
(* The controller as a state machine: every trigger may fire at any time.  *)
(***************************************************************************)
Next ==
  \/ \E f \in Files : Upload(f)
  \/ ApplyUpdate
  \/ SmartFix
  \/ Edit
  \/ \E t \in UserTexts : EditPrompt(t)
  \/ Reset
  \/ \E c \in BagToSet(calls) : \E t \in SuggestTexts(c) : SuggestOk(c, t)
  \/ \E c \in BagToSet(calls) : SuggestFail(c)
  \/ \E c \in BagToSet(calls) : \E out \in Outcomes(c) : InpaintOk(c, out)
  \/ \E c \in BagToSet(calls) : \E out \in Outcomes(c) : InpaintFail(c, out)
  \/ \E c \in BagToSet(calls) : \E t \in AnalyzeTexts : AnalyzeOk(c, t)
  \/ \E c \in BagToSet(calls) : \E m \in AnalyzeErrors : AnalyzeFail(c, m)
  \/ \E l \in BagToSet(loads) : InitLoaded(l)
  \/ StartDrawing
  \/ \E cell \in Cells : Draw(cell)
  \/ StopDrawing
  \/ \E l \in BagToSet(loads) : MaskUpdate(l)

Spec == Init /\ [][Next]_vars

(***************************************************************************)
(* The application with its view: a trigger fires only while the view      *)
(* renders its control and leaves it enabled.                              *)
(***************************************************************************)
Busy(s) == s.isProcessing \/ s.isSuggesting \/ s.isAnalyzingResult

\* {state.originalImage && <button onClick={reset}>}
ResetEnabled == state.originalImage # NoImage

\* disabled={!state.originalImage || state.isProcessing || state.isSuggesting || state.isAnalyzingResult}
ApplyEnabled == state.originalImage # NoImage /\ ~Busy(state)

\* rendered in the result view; disabled={state.isAnalyzingResult}
SmartFixEnabled ==
  /\ state.originalImage # NoImage /\ state.resultImage # NoImage
  /\ ~state.isAnalyzingResult

\* rendered in the result view
EditEnabled == state.originalImage # NoImage /\ state.resultImage # NoImage

\* textarea disabled={state.isSuggesting || state.isAnalyzingResult}
PromptEnabled == ~state.isSuggesting /\ ~state.isAnalyzingResult

UIApplyUpdate == ApplyEnabled /\ ApplyUpdate
UISmartFix == SmartFixEnabled /\ SmartFix
UIEdit == EditEnabled /\ Edit
UIEditPrompt(t) == PromptEnabled /\ EditPrompt(t)
UIReset == ResetEnabled /\ Reset

NextUI ==
  \/ \E f \in Files : Upload(f)
  \/ UIApplyUpdate
  \/ UISmartFix
  \/ UIEdit
  \/ \E t \in UserTexts : UIEditPrompt(t)
  \/ UIReset
  \/ \E c \in BagToSet(calls) : \E t \in SuggestTexts(c) : SuggestOk(c, t)
  \/ \E c \in BagToSet(calls) : SuggestFail(c)
  \/ \E c \in BagToSet(calls) : \E out \in Outcomes(c) : InpaintOk(c, out)
  \/ \E c \in BagToSet(calls) : \E out \in Outcomes(c) : InpaintFail(c, out)
  \/ \E c \in BagToSet(calls) : \E t \in AnalyzeTexts : AnalyzeOk(c, t)
  \/ \E c \in BagToSet(calls) : \E m \in AnalyzeErrors : AnalyzeFail(c, m)
  \/ \E l \in BagToSet(loads) : InitLoaded(l)
  \/ StartDrawing
  \/ \E cell \in Cells : Draw(cell)
  \/ StopDrawing
  \/ \E l \in BagToSet(loads) : MaskUpdate(l)

SpecUI == Init /\ [][NextUI]_vars

(***************************************************************************)
(* The application when the provider answers: every call in flight is      *)
(* eventually settled, with a response or with an error.  A call is known  *)
(* by its operation and the photo it is about.  Triggers come through the  *)
(* enabled controls.                                                       *)
(***************************************************************************)
PendingCalls ==
  [op : {"suggest", "inpaint"}, src : Files] \cup {[op |-> "analyze", src |-> ""]}

\* the continuation of the await of call c, in the try or in the catch
Respond(c) ==
  \/ \E t \in SuggestTexts(c) : SuggestOk(c, t)
  \/ SuggestFail(c)
  \/ \E out \in Outcomes(c) : InpaintOk(c, out)
  \/ \E out \in Outcomes(c) : InpaintFail(c, out)
  \/ \E t \in AnalyzeTexts : AnalyzeOk(c, t)
  \/ \E m \in AnalyzeErrors : AnalyzeFail(c, m)

CallsResolve == \A c \in PendingCalls : WF_vars(Respond(c))

\* the controls that issue calls or change the view, the responses and the
\* editor's initialise load; strokes and prompt edits touch no flag or call
NextFlow ==
  \/ \E f \in Files : Upload(f)
  \/ UIApplyUpdate
  \/ UISmartFix
  \/ UIEdit
  \/ UIReset
  \/ \E c \in BagToSet(calls) : Respond(c)
  \/ \E l \in BagToSet(loads) : InitLoaded(l)

SpecFlowFair == Init /\ [][NextFlow]_vars /\ CallsResolve

(***************************************************************************)
(* The controller over every deployment: either gateway file, with or      *)
(* without process.env.API_KEY.                                            *)
(***************************************************************************)
InitAnyDeployment ==
  /\ state = InitialState
  /\ calls = EmptyBag
  /\ sent = NoRequest
  /\ canvas = FreshCanvas
  /\ loads = EmptyBag
  /\ hist = <<>>
  /\ env \in Deployments
  /\ brush = InitialBrush

SpecDeployments == InitAnyDeployment /\ [][Next]_vars

(***************************************************************************)
(* The editor with its toolbar, on pages of every width: photos are        *)
(* uploaded and dropped, the brush controls are used and strokes are       *)
(* drawn, while the suggestion requests answer.                            *)
(***************************************************************************)
InitAnyLayout ==
  /\ state = InitialState
  /\ calls = EmptyBag
  /\ sent = NoRequest
  /\ canvas = FreshCanvas
  /\ loads = EmptyBag
  /\ hist = <<>>
  /\ env \in Layouts
  /\ brush = InitialBrush

NextCanvas ==
  \/ \E f \in Files : Upload(f)
  \/ Reset
  \/ \E c \in BagToSet(calls) : \E t \in SuggestTexts(c) : SuggestOk(c, t)
  \/ \E c \in BagToSet(calls) : SuggestFail(c)
  \/ \E m \in BrushModes : SetBrushMode(m)
  \/ \E n \in BrushSizes : SetBrushSize(n)
  \/ \E l \in BagToSet(loads) : InitLoaded(l)
  \/ StartDrawing
  \/ \E cell \in Cells : Draw(cell)
  \/ StopDrawing
  \/ \E l \in BagToSet(loads) : MaskUpdate(l)

SpecCanvas == InitAnyLayout /\ [][NextCanvas]_vars


(***************************************************************************)
(* Claims.                                                                 *)
(***************************************************************************)

\* C1: right after an Upload the Session holds the uploaded image with
\* isSuggesting set, and maskImage, resultImage and error are absent and
\* isProcessing and isAnalyzingResult are false, whatever the state before.
C1_UploadResetsSession ==
  [][\A f \in Files : Upload(f) =>
       /\ state'.originalImage = File(f)
       /\ state'.isSuggesting
       /\ state'.maskImage = NoImage
       /\ state'.resultImage = NoImage
       /\ state'.error = NoError
       /\ ~state'.isProcessing
       /\ ~state'.isAnalyzingResult]_vars

\* C2: an ApplyUpdate with originalImage present hands the gateway an Inpaint
\* request whose image is maskImage when that is present and originalImage
\* otherwise, and whose prompt is the Session's prompt at the trigger.
C2_ApplyUpdateArguments ==
  [][(ApplyUpdate /\ state.originalImage # NoImage) =>
       /\ sent'.op = "inpaint"
       /\ sent'.image = (IF state.maskImage = NoImage
                         THEN state.originalImage ELSE state.maskImage)
       /\ sent'.prompt = state.prompt]_vars

\* C2's case: an Inpaint request was just issued with no maskImage set, and
\* carries the uploaded photo itself.
C2_Witness ==
  /\ sent.op = "inpaint"
  /\ state.maskImage = NoImage
  /\ sent.image = state.originalImage
  /\ sent.image.kind = "file"

\* C3: applying a successful AnalyzeResult response clears resultImage, sets
\* the prompt to the returned text and clears isAnalyzingResult, and keeps
\* originalImage and maskImage as they were.
C3_SmartFixSuccessFrame ==
  [][\A c \in BagToSet(calls) : \A t \in ProviderAnalyzeTexts :
       AnalyzeOk(c, t) =>
         /\ state'.resultImage = NoImage
         /\ state'.prompt = AnalyzeResultForErrors(t)
         /\ ~state'.isAnalyzingResult
         /\ state'.originalImage = state.originalImage
         /\ state'.maskImage = state.maskImage]_vars

\* C3's case: a SmartFix response has just been applied while a photo and a
\* composite were held: the editor is back with the corrective prompt.
C3_Witness ==
  /\ state.prompt \in {AnalyzeResultForErrors(t) : t \in ProviderAnalyzeTexts}
  /\ state.originalImage # NoImage
  /\ state.maskImage # NoImage
  /\ state.resultImage = NoImage
  /\ ~state.isAnalyzingResult
  /\ calls = EmptyBag

C4_Run == <<"Upload", "SuggestOk", "MaskUpdate", "ApplyUpdate", "InpaintOk">>

\* C4: after the run Upload(A); SuggestPrompt resolves with T; MaskUpdate(C);
\* ApplyUpdate; Inpaint resolves with R, the Inpaint request carried (C, T),
\* resultImage is R and isProcessing is false.
C4_UploadMaskApplyRun ==
  Ops(hist) = C4_Run =>
    /\ hist[4].img = hist[3].img
    /\ hist[4].text = hist[2].text
    /\ state.resultImage = hist[5].img
    /\ ~state.isProcessing

\* C4's case: the run has happened, with a painted composite.
C4_Witness ==
  /\ Ops(hist) = C4_Run
  /\ hist[3].img.kind = "composite"
  /\ hist[3].img.ov # {}
  /\ hist[5].img.kind = "result"

\* C5: applying a SuggestPrompt failure sets the prompt to the default
\* literal, stores a non-empty error, clears isSuggesting and keeps
\* originalImage.
C5_SuggestFailureDefaultPrompt ==
  [][\A c \in BagToSet(calls) : SuggestFail(c) =>
       /\ state'.prompt = DEFAULT_PROMPT
       /\ state'.error # NoError /\ state'.error # Err("")
       /\ ~state'.isSuggesting
       /\ state'.originalImage = state.originalImage]_vars

\* C5's case: the suggestion of an uploaded photo has failed.
C5_Witness ==
  /\ Ops(hist) = <<"Upload", "SuggestFail">>
  /\ state.originalImage = hist[1].img
  /\ state.prompt = DEFAULT_PROMPT

\* a response that did not throw and holds no part with inline data
NoInlinePart(resp) ==
  /\ ~resp.throws
  /\ \A i \in 1..Len(resp.candidates) :
       \A j \in 1..Len(resp.candidates[i]) : ~resp.candidates[i][j].inline

\* what processInpainting does with every response of the provider that has no
\* inline image part, for every photo
NoImageOutcomes ==
  {ProcessInpainting(File(f), resp) :
     f \in Files, resp \in {r \in Responses : NoInlinePart(r)}}

\* C6: a response with no inline image part makes Inpaint fail with "The
\* model did not return an edited image."; applying that failure stores the
\* text as the error, clears isProcessing and leaves resultImage as it was.
C6_NoImageReturned ==
  [][/\ NoImageOutcomes = {Rejected(NO_IMAGE_ERROR)}
     /\ \A c \in BagToSet(calls) :
          InpaintFail(c, Rejected(NO_IMAGE_ERROR)) =>
            /\ state'.error = Err("The model did not return an edited image.")
            /\ ~state'.isProcessing
            /\ state'.resultImage = state.resultImage]_vars

\* C6's case: the only ApplyUpdate so far has failed for want of an image.
C6_Witness ==
  /\ state.error = Err(NO_IMAGE_ERROR)
  /\ state.resultImage = NoImage
  /\ state.originalImage # NoImage
  /\ ~state.isProcessing
  /\ calls = EmptyBag

\* C7: a Reset leaves the Session equal to the empty initial state, whatever
\* the state before and whatever calls are in flight.
C7_ResetUnconditional ==
  [][Reset =>
       /\ state'.originalImage = NoImage
       /\ state'.maskImage = NoImage
       /\ state'.resultImage = NoImage
       /\ state'.prompt = ""
       /\ ~state'.isProcessing /\ ~state'.isSuggesting
       /\ ~state'.isAnalyzingResult
       /\ state'.error = NoError
       /\ state' = InitialState]_vars

\* C7's case: a Reset was applied while a call was in flight.
C7_Witness ==
  /\ Ops(hist) = <<"Upload", "Reset">>
  /\ state = InitialState
  /\ calls # EmptyBag

\* C8: in the run Upload; Reset; SuggestPrompt resolves, the response is
\* applied after the Reset: the prompt becomes the suggestion (or the default
\* prompt with an error on failure), originalImage stays absent, and the
\* Session is not the empty initial state.
C8_StaleSuggestionAfterReset ==
  /\ Ops(hist) = <<"Upload", "Reset", "SuggestOk">> =>
       /\ state.prompt = hist[3].text
       /\ state.originalImage = NoImage
       /\ state # InitialState
  /\ Ops(hist) = <<"Upload", "Reset", "SuggestFail">> =>
       /\ state.prompt = DEFAULT_PROMPT
       /\ state.error # NoError
       /\ state.originalImage = NoImage
       /\ state # InitialState

\* C8's case: the suggestion of the photo arrived after the Reset.
C8_Witness ==
  /\ Ops(hist) = <<"Upload", "Reset", "SuggestOk">>
  /\ state.prompt = SuggestionFor(hist[1].img.src)

\* C9: with the view's enabling, at most one of isSuggesting,
\* isAnalyzingResult and isProcessing is true.
C9_AtMostOneBusyFlag ==
  /\ ~(state.isSuggesting /\ state.isAnalyzingResult)
  /\ ~(state.isSuggesting /\ state.isProcessing)
  /\ ~(state.isAnalyzingResult /\ state.isProcessing)

\* C10: with the view's enabling, no two calls of the same operation are in
\* flight at the same time.
C10_NoSelfConcurrency ==
  \A op \in {"suggest", "inpaint", "analyze"} : NumInFlight(op) <= 1

\* an error text is stored and it is not the empty string
NonEmptyError(s) == s.error # NoError /\ s.error # Err("")

\* C11: applying the failure of any gateway call stores a non-empty error
\* text, clears the flag of the trigger that issued the call, removes only
\* that call from the calls in flight and issues no new one.
C11_FailuresAbsorbed ==
  [][\A c \in BagToSet(calls) :
       /\ SuggestFail(c) =>
            /\ NonEmptyError(state') /\ ~state'.isSuggesting
            /\ calls' = calls (-) SetToBag({c}) /\ sent' = NoRequest
       /\ \A out \in Outcomes(c) : InpaintFail(c, out) =>
            /\ NonEmptyError(state') /\ ~state'.isProcessing
            /\ calls' = calls (-) SetToBag({c}) /\ sent' = NoRequest
       /\ \A m \in ProviderErrors : AnalyzeFail(c, m) =>
            /\ NonEmptyError(state') /\ ~state'.isAnalyzingResult
            /\ calls' = calls (-) SetToBag({c}) /\ sent' = NoRequest]_vars

\* C12: applying a successful Inpaint response leaves resultImage equal to
\* the returned image, isProcessing false and no error, whatever happened
\* while the call was in flight.
C12_InpaintSuccessClearsError ==
  [][\A c \in BagToSet(calls) : \A out \in Outcomes(c) :
       InpaintOk(c, out) =>
         /\ state'.resultImage = out.image
         /\ ~state'.isProcessing
         /\ state'.error = NoError]_vars

\* the parts of the first candidate (none when there is no candidate)
FirstCandidateParts(resp) ==
  IF Len(resp.candidates) > 0 THEN resp.candidates[1] ELSE <<>>

\* the positions of the parts that carry inline data
InlinePositions(parts) == {i \in 1..Len(parts) : parts[i].inline}

\* the payload at the least position with inline data
FirstPayload(parts) ==
  parts[CHOOSE i \in InlinePositions(parts) :
          \A j \in InlinePositions(parts) : i <= j].data

\* the photo and response pairs on which processInpainting departs from:
\* fail when the call throws or the first candidate has no inline part,
\* otherwise return the data URI of the first inline part
InpaintDepartures ==
  {fr \in Files \X Responses :
     LET parts == FirstCandidateParts(fr[2])
         out == ProcessInpainting(File(fr[1]), fr[2])
     IN  IF fr[2].throws \/ InlinePositions(parts) = {}
         THEN out.ok
         ELSE out # Resolved(DataUri(File(fr[1]), FirstPayload(parts)))}

\* the data URIs the first inline parts of the provider's responses give
FirstInlineUris ==
  [f \in Files |->
     {DataUri(File(f), FirstPayload(FirstCandidateParts(resp))) :
        resp \in {r \in Responses :
                    ~r.throws /\ InlinePositions(FirstCandidateParts(r)) # {}}}]

GatewayTextsNonEmpty ==
  /\ \A f \in Files : \A t \in ProviderSuggestTexts(f) : GetPromptSuggestion(t) # ""
  /\ \A t \in ProviderAnalyzeTexts : AnalyzeResultForErrors(t) # ""

\* C19 as claimed: the gateway's text operations never return empty text,
\* and the prompt is non-empty after any SuggestPrompt or AnalyzeResult
\* response, success or failure, is applied.
C19_PromptNonEmptyAfterResponse ==
  [][/\ GatewayTextsNonEmpty
     /\ \A c \in BagToSet(calls) :
          \/ SuggestFail(c)
          \/ \E t \in ProviderSuggestTexts(c.src) : SuggestOk(c, t)
          \/ \E t \in ProviderAnalyzeTexts : AnalyzeOk(c, t)
          \/ \E m \in ProviderErrors : AnalyzeFail(c, m)
          => state'.prompt # ""]_vars

\* C19 amended: the gateway's text operations never return empty text; the
\* prompt is non-empty after a SuggestPrompt response (success or failure)
\* or a successful AnalyzeResult response is applied; a failed AnalyzeResult
\* leaves the prompt as it was.
C19_PromptNonEmptyAmended ==
  [][/\ GatewayTextsNonEmpty
     /\ \A c \in BagToSet(calls) :
          /\ (\/ SuggestFail(c)
              \/ \E t \in ProviderSuggestTexts(c.src) : SuggestOk(c, t)
              \/ \E t \in ProviderAnalyzeTexts : AnalyzeOk(c, t))
             => state'.prompt # ""
          /\ (\E m \in ProviderErrors : AnalyzeFail(c, m))
             => state'.prompt = state.prompt]_vars

\* C19's case: an empty answer of AnalyzeResult was replaced by the fallback
\* literal and applied as the prompt.
C19_Witness ==
  /\ state.prompt = ANALYZE_FALLBACK
  /\ state.resultImage = NoImage
  /\ state.originalImage # NoImage
  /\ ~state.isAnalyzingResult

\* C20: applying an AnalyzeResult failure sets the error to the failure text
\* and clears isAnalyzingResult; resultImage, prompt, originalImage and
\* maskImage (and the two other flags) keep their values.
C20_SmartFixFailureFrame ==
  [][\A c \in BagToSet(calls) : \A m \in ProviderErrors :
       AnalyzeFail(c, m) =>
         /\ state'.error = Err(m)
         /\ ~state'.isAnalyzingResult
         /\ state'.resultImage = state.resultImage
         /\ state'.prompt = state.prompt
         /\ state'.originalImage = state.originalImage
         /\ state'.maskImage = state.maskImage
         /\ state'.isProcessing = state.isProcessing
         /\ state'.isSuggesting = state.isSuggesting]_vars

C20_Run == <<"Upload", "SuggestOk", "ApplyUpdate", "InpaintOk", "SmartFix", "AnalyzeFail">>

\* C20's case: a Smart Fix on a displayed result has failed; the result is
\* still displayed and the error is the failure text.
C20_Witness ==
  /\ Ops(hist) = C20_Run
  /\ state.resultImage = hist[4].img
  /\ state.resultImage # NoImage
  /\ state.error = Err(hist[6].text)
  /\ state.prompt = hist[2].text

C13_CompositeNativeSize ==
  [][\A l \in BagToSet(loads) :
       MaskUpdate(l) => EmittedSize(l) = NativeSize(l.src.src)]_vars

(***************************************************************************)
(* C14: whenever PointerMove renders a stroke (a stroke is active and the  *)
(* context exists), the context's line width is the current brush size     *)
(* and its compositing rule matches the current mode: DRAW is source-over  *)
(* with the semi-transparent mask colour, ERASE is destination-out.  This  *)
(* covers the strokes drawn right after the surface was initialised or     *)
(* re-initialised with no brush change in between.                         *)
(***************************************************************************)
ContextMatchesBrush(cv, b) ==
  /\ cv.lineWidth = b.size
  /\ b.mode = DRAW => cv.gco = SOURCE_OVER /\ cv.strokeStyle = MASK_STROKE
  /\ b.mode = ERASE => cv.gco = DESTINATION_OUT

C14_StrokeUsesBrush ==
  [][\A cell \in Cells :
       (Draw(cell) /\ canvas.isDrawing /\ canvas.ctx)
         => ContextMatchesBrush(canvas, brush)]_vars

(***************************************************************************)
(* C15: while the drawing context is not initialised (the initialise load  *)
(* has not completed), PointerDown, PointerMove and PointerUp are silent   *)
(* no-ops: they leave the editor's state, its stroke-active flag           *)
(* included, as it is and start nothing that emits a MaskUpdate.           *)
(***************************************************************************)
PointerStep == StartDrawing \/ (\E cell \in Cells : Draw(cell)) \/ StopDrawing

C15_NoContextNoOp ==
  [][(~canvas.ctx /\ PointerStep) => canvas' = canvas /\ loads' = loads]_vars

C16_Run == <<"Upload", "MaskUpdate", "MaskUpdate">>

NothingDone == state' = state /\ calls' = calls /\ sent' = NoRequest

C21_GuardsInController ==
  [][/\ (ApplyUpdate /\ state.originalImage = NoImage) => NothingDone
     /\ (SmartFix /\ (state.originalImage = NoImage
                       \/ state.resultImage = NoImage)) => NothingDone]_vars

\* C21's case: the Session holds no photo while calls of an earlier photo are
\* still in flight, so only the guards stand between a trigger and a call
C21_Witness ==
  /\ state.originalImage = NoImage
  /\ state.resultImage = NoImage
  /\ calls # EmptyBag
  /\ sent = NoRequest
  /\ ~Busy(state)

(***************************************************************************)
(* C22: a PointerUp (or pointer-leave) with no active stroke changes       *)
(* nothing and emits no composite, and a PointerMove with no active stroke *)
(* renders nothing.  So a stroke becomes active only by PointerDown, an    *)
(* emission becomes pending only when an active stroke ends, one per       *)
(* stroke, and every MaskUpdate uses up one pending emission: each         *)
(* MaskUpdate is preceded by a PointerDown and each stroke causes at most  *)
(* one MaskUpdate.                                                         *)
(***************************************************************************)
PendingEmissions(b) ==
  BagCardinality([l \in {x \in BagToSet(b) : x.kind = "flatten"} |-> b[l]])

C22_StrokeBracketsEmission ==
  [][/\ (StopDrawing /\ ~canvas.isDrawing)
          => canvas' = canvas /\ loads' = loads /\ state' = state
     /\ \A cell \in Cells :
          (Draw(cell) /\ ~canvas.isDrawing)
            => canvas' = canvas /\ loads' = loads /\ state' = state
     /\ (canvas'.isDrawing /\ ~canvas.isDrawing) => StartDrawing
     /\ PendingEmissions(loads') > PendingEmissions(loads)
          => /\ canvas.isDrawing /\ ~canvas'.isDrawing
             /\ PendingEmissions(loads') = PendingEmissions(loads) + 1
     /\ \A l \in BagToSet(loads) :
          MaskUpdate(l) => PendingEmissions(loads') = PendingEmissions(loads) - 1]_vars

\* C22's case: one stroke was drawn and ended, its composite has been emitted
\* and no further emission is pending
C22_Witness ==
  /\ Len(hist) = 2 /\ hist[2].op = "MaskUpdate"
  /\ hist[2].img.ov # {}
  /\ state.maskImage = hist[2].img
  /\ ~canvas.isDrawing
  /\ loads = EmptyBag

(***************************************************************************)
(* C23: the image sent to Inpaint derives from the current photo.  In      *)
(* every reachable state where maskImage is present, originalImage is      *)
(* present and maskImage was flattened from that same originalImage, so no *)
(* ApplyUpdate sends a composite built from an earlier photo.              *)
(***************************************************************************)
C23_MaskOfCurrentPhoto ==
  state.maskImage # NoImage =>
    /\ state.originalImage # NoImage
    /\ state.maskImage.src = state.originalImage.src

(***************************************************************************)
(* C24: in every reachable state where resultImage is present,             *)
(* originalImage is present and resultImage answers an Inpaint call made   *)
(* for that same originalImage; the answer to a call issued before a Reset *)
(* or before a later Upload never becomes the displayed result.            *)
(***************************************************************************)
C24_ResultOfCurrentPhoto ==
  state.resultImage # NoImage =>
    /\ state.originalImage # NoImage
    /\ state.resultImage.src = state.originalImage.src

(***************************************************************************)
(* C25: once every issued SuggestPrompt call has resolved successfully and *)
(* the user has not edited the prompt since, the prompt is the suggestion  *)
(* computed for the current originalImage.  Stated on the run of two       *)
(* uploads whose two suggestions then arrive, in either order: the prompt  *)
(* is a suggestion for the photo uploaded last.                            *)
(***************************************************************************)
SuggestionsOf(src) == {GetPromptSuggestion(t) : t \in ProviderSuggestTexts(src)}

C25_Run == <<"Upload", "Upload", "SuggestOk", "SuggestOk">>

C25_PromptOfCurrentPhoto ==
  (Ops(hist) = C25_Run /\ NumInFlight("suggest") = 0) =>
    /\ state.originalImage = hist[2].img
    /\ state.prompt \in SuggestionsOf(state.originalImage.src)

(***************************************************************************)
(* C26: busy flags never outlive their calls.  In every reachable state in *)
(* which no gateway call is in flight, isSuggesting, isProcessing and      *)
(* isAnalyzingResult are all false; and, when every issued call eventually *)
(* resolves, a state with all three flags false is reached again and       *)
(* again, from every state.                                                *)
(***************************************************************************)
C26_FlagsNeverOutliveCalls ==
  /\ [](calls = EmptyBag => ~Busy(state))
  /\ []<>(~Busy(state))

\* C26's case: a call was issued, set its flag and has resolved; nothing is in
\* flight any more
C26_Witness ==
  /\ calls = EmptyBag
  /\ state.originalImage # NoImage
  /\ state.resultImage # NoImage \/ state.error # NoError
  /\ ~Busy(state)

(***************************************************************************)
(* C27: the stored mask matches what the editor shows.  Whenever the mask  *)
(* editor is displayed (originalImage present, resultImage absent), no     *)
(* stroke is active and no composite emission is pending, maskImage is     *)
(* either absent with an empty overlay or the flattening of originalImage  *)
(* with the editor's live overlay.                                         *)
(***************************************************************************)
C27_MaskMatchesEditor ==
  (Mounted(state) /\ ~canvas.isDrawing /\ PendingEmissions(loads) = 0) =>
    \/ state.maskImage = NoImage /\ canvas.overlay = {}
    \/ state.maskImage = Composite(state.originalImage.src, canvas.overlay)

=============================================================================
